---------------------------- MODULE Spec2Model ----------------------------
(***************************************************************************)
(* Host-device framing protocol and inference scheduling of the STM32      *)
(* digit classifier (tinyML/Core/Src/main.c).                              *)
(*                                                                         *)
(* Two execution contexts share the state: the main context (main() and    *)
(* the functions it calls, one action per statement group, position in     *)
(* pc) and the interrupt context (the two HAL callbacks, each one atomic   *)
(* action because an interrupt handler runs to completion before main      *)
(* resumes).  The serial platform and the inference engine are not part    *)
(* of main.c.  The platform is modelled by PlatformReceiveIT and by the    *)
(* guards of the two event actions: it holds at most one receive request,  *)
(* raises its two interrupts only while a request is outstanding, and a    *)
(* receive fault ends the transfer in progress.  The callbacks are         *)
(* modelled for huart->Instance == USART2, the only UART main.c opens.     *)
(* The engine is modelled by EngineOutput and the batch count chosen in    *)
(* Main_AIRun.  The loops of ProcessInference are single steps: no         *)
(* interrupt is raised while they run (C3).                                *)
(***************************************************************************)
EXTENDS Integers, Sequences, FiniteSets, TLC

(* ---------------------------- program constants ------------------------ *)
IMG_SIZE == 784
NUM_CLASSES == 10
CMD_SIZE == 5
TX_TIMEOUT == 1000
(* 0xFFFFFFFF, the HAL's wait-forever timeout, written as the same 32-bit  *)
(* pattern read as a signed integer                                        *)
HAL_MAX_DELAY == -1

STATE_IDLE == "STATE_IDLE"
STATE_WAIT_START == "STATE_WAIT_START"
STATE_RECEIVE_IMAGE == "STATE_RECEIVE_IMAGE"
STATE_PROCESS_IMAGE == "STATE_PROCESS_IMAGE"
AppState_t == {STATE_IDLE, STATE_WAIT_START, STATE_RECEIVE_IMAGE, STATE_PROCESS_IMAGE}

(* "START" as the bytes memcmp compares *)
START_TOKEN == <<83, 84, 65, 82, 84>>

MSG_READY == "STM32F411 Ready - Cube AI Initialized\r\n"
MSG_INIT_FAILED == "AI Init Failed!\r\n"
MSG_INFERENCE_FAILED == "ERROR: Inference failed\r\n"
MSG_UART_ERROR == "ERROR: UART error\r\n"

(* ------------------------------- bounds -------------------------------- *)
(* number of platform events (receive completions and receive errors)     *)
MaxEvents == 5
(* longest prefix of an interrupted transfer already stored on an error   *)
MaxPartial == 2
(* number of callback invocations when the callbacks are taken on their   *)
(* own                                                                    *)
MaxCalls == 2
(* number of input tensors AI_Run is applied to on its own                *)
MaxRunInputs == 16

(* ------------------------- inputs of the model ------------------------- *)
STARX_TOKEN == <<83, 84, 65, 82, 88>>
CmdTokens == {START_TOKEN, STARX_TOKEN}

Pixels == 0 .. (IMG_SIZE - 1)
ShiftImage(s) == [i \in Pixels |-> (i + s) % 256]
PeakImage(k) == [i \in Pixels |-> IF i = k THEN 255 ELSE 0]
Images == {ShiftImage(0), PeakImage(3)}

BatchVals == {1, 0, 2, -1}

VARIABLES
  pc,                \* position of the main context
  app_state,         \* main.c:75
  rx_complete,       \* main.c:77
  rx_error,          \* main.c:78
  start_cmd_buffer,  \* main.c:76
  img_buffer,        \* main.c:70
  input_buffer,      \* main.c:71
  output_buffer,     \* main.c:72
  network,           \* main.c:60  (TRUE: non-null handle)
  ai_input,          \* main.c:61  (TRUE: non-null descriptor)
  ai_output,         \* main.c:62
  ret,               \* main.c:154 local of ProcessInference
  rx,                \* the receive request outstanding in the platform
  tx,                \* every buffer handed to HAL_UART_Transmit, in order
  lastArms,          \* HAL_UART_Receive_IT calls issued by the last step
  overlap,           \* some HAL_UART_Receive_IT call found a receive outstanding
  imgDone,           \* number of completed image receives
  errDone,           \* number of receive-error events
  nEvents,           \* number of platform events so far
  txStatus,          \* status returned by the last HAL_UART_Transmit call
  last_batch,        \* main.c:125 the batch count ai_network_run returned last
  engineRuns,        \* number of ai_network_run invocations
  lastCall           \* the callback the platform invoked last, and for which UART

vars == <<pc, app_state, rx_complete, rx_error, start_cmd_buffer, img_buffer,
          input_buffer, output_buffer, network, ai_input, ai_output, ret,
          rx, tx, lastArms, overlap, imgDone, errDone, nEvents, txStatus,
          last_batch, engineRuns, lastCall>>

(* ------------------------------ platform ------------------------------- *)
NoRx == [buf |-> "none", len |-> 0]
CmdReq == [buf |-> "cmd", len |-> CMD_SIZE]
ImgReq == [buf |-> "img", len |-> IMG_SIZE]

(* receive_async: a request is accepted only when none is outstanding *)
PlatformReceiveIT(cur, req) == IF cur = NoRx THEN req ELSE cur

RECURSIVE IssueArms(_, _)
IssueArms(cur, reqs) ==
  IF reqs = <<>> THEN cur
  ELSE IssueArms(PlatformReceiveIT(cur, Head(reqs)), Tail(reqs))

RECURSIVE ArmsOverlap(_, _)
ArmsOverlap(cur, reqs) ==
  IF reqs = <<>> THEN FALSE
  ELSE \/ cur # NoRx
       \/ ArmsOverlap(PlatformReceiveIT(cur, Head(reqs)), Tail(reqs))

(* transmit_blocking returns a status, which main.c never reads *)
HalStatus == {"HAL_OK", "HAL_TIMEOUT"}

NoCall == [cb |-> "none", inst |-> "none"]
UartInstances == {"USART2", "USART1"}

TxRec(m, t, c) == [msg |-> m, timeout |-> t, ctx |-> c]

(* the first k elements of data stored over old *)
StorePrefix(old, data, k, base) ==
  [i \in DOMAIN old |-> IF i - base < k THEN data[i] ELSE old[i]]

(* ------------------------------ AI_Init -------------------------------- *)
(* return value of AI_Init from the outcome of create-and-init and the    *)
(* two descriptor getters                                                  *)
AI_Init(createOk, inOk, outOk) ==
  IF ~createOk THEN -1
  ELSE IF ~inOk \/ ~outOk THEN -1
  ELSE 0

(* ------------------------------- AI_Run -------------------------------- *)
(* a variant that takes any positive batch count for success *)
AI_RunAnyBatch(net, inp, out, batch) ==
  IF ~(net /\ inp /\ out) THEN -1
  ELSE IF batch < 1 THEN -1
  ELSE 0

(* main.c:123-139: -1 on a null handle or descriptor or on a batch count   *)
(* other than 1, else 0                                                    *)
AI_Run(net, inp, out, batch) ==
  IF ~net \/ ~inp \/ ~out THEN -1
  ELSE IF batch # 1 THEN -1
  ELSE 0

(* main.c:127: ai_network_run is reached only with all three non-null *)
AI_RunInvokesEngine(net, inp, out) == net /\ inp /\ out

(* stand-in for the opaque engine: a deterministic score vector computed  *)
(* from the quantized input                                                *)
EngineOutput(inbuf) == [c \in 0 .. (NUM_CLASSES - 1) |-> inbuf[c]]

(* --------------------------- ProcessInference -------------------------- *)
(* conversion of an int to int8_t *)
Int8Cast(x) == ((x + 128) % 256) - 128

QuantizeNoOffset(b) == Int8Cast(b)
Quantize(b) == Int8Cast(b - 128)

RECURSIVE FindMaxGE(_, _, _, _)
FindMaxGE(out, i, max_prob, predicted_class) ==
  IF i >= NUM_CLASSES THEN predicted_class
  ELSE IF out[i] >= max_prob
       THEN FindMaxGE(out, i + 1, out[i], i)
       ELSE FindMaxGE(out, i + 1, max_prob, predicted_class)

RECURSIVE FindMaxFrom(_, _, _, _)
FindMaxFrom(out, i, max_prob, predicted_class) ==
  IF i >= NUM_CLASSES THEN predicted_class
  ELSE IF out[i] > max_prob
       THEN FindMaxFrom(out, i + 1, out[i], i)
       ELSE FindMaxFrom(out, i + 1, max_prob, predicted_class)

FindMaxClassGE(out) == FindMaxGE(out, 1, out[0], 0)
FindMaxClass(out) == FindMaxFrom(out, 1, out[0], 0)

(* ------------------------------ SendResult ----------------------------- *)
DigitChar(d) ==
  CASE d = 0 -> "0" [] d = 1 -> "1" [] d = 2 -> "2" [] d = 3 -> "3"
    [] d = 4 -> "4" [] d = 5 -> "5" [] d = 6 -> "6" [] d = 7 -> "7"
    [] d = 8 -> "8" [] d = 9 -> "9"

RECURSIVE FormatNat(_)
FormatNat(n) ==
  IF n < 10 THEN DigitChar(n)
  ELSE FormatNat(n \div 10) \o DigitChar(n % 10)

(* snprintf(result, 32, "%d\r\n", predicted_class) *)
FormatResult(n) ==
  (IF n < 0 THEN "-" \o FormatNat(-n) ELSE FormatNat(n)) \o "\r\n"

SendResult(predicted_class) ==
  <<TxRec(FormatResult(predicted_class), TX_TIMEOUT, "main")>>


(* --------------------------- interrupt context -------------------------- *)
(* memcmp(start_cmd_buffer, "START", 5) == 0 *)
MemcmpStart4(buf) == \A i \in 1 .. (CMD_SIZE - 1) : buf[i] = START_TOKEN[i]
MemcmpStart(buf) == \A i \in 1 .. CMD_SIZE : buf[i] = START_TOKEN[i]

(* Effect of the receive-complete callback for USART2: the new app_state  *)
(* and rx_complete and the HAL_UART_Receive_IT calls it issues, in order.  *)
RxCpltCallbackRearm(st, cmd, rc) ==
  IF st = STATE_WAIT_START
  THEN IF MemcmpStart(cmd)
       THEN [app_state |-> STATE_RECEIVE_IMAGE, rx_complete |-> rc, arms |-> <<ImgReq>>]
       ELSE [app_state |-> st, rx_complete |-> rc, arms |-> <<CmdReq>>]
  ELSE IF st = STATE_RECEIVE_IMAGE
       THEN [app_state |-> STATE_PROCESS_IMAGE, rx_complete |-> 1, arms |-> <<CmdReq>>]
       ELSE [app_state |-> st, rx_complete |-> rc, arms |-> <<>>]

RxCpltCallbackFlagAlways(st, cmd, rc) ==
  IF st = STATE_WAIT_START
  THEN IF MemcmpStart(cmd)
       THEN [app_state |-> STATE_RECEIVE_IMAGE, rx_complete |-> rc, arms |-> <<ImgReq>>]
       ELSE [app_state |-> st, rx_complete |-> 1, arms |-> <<CmdReq>>]
  ELSE IF st = STATE_RECEIVE_IMAGE
       THEN [app_state |-> STATE_PROCESS_IMAGE, rx_complete |-> 1, arms |-> <<>>]
       ELSE [app_state |-> st, rx_complete |-> rc, arms |-> <<>>]

(* a variant that takes every state but STATE_WAIT_START for an image *)
RxCpltCallbackElseImage(st, cmd, rc) ==
  IF st = STATE_WAIT_START
  THEN IF MemcmpStart(cmd)
       THEN [app_state |-> STATE_RECEIVE_IMAGE, rx_complete |-> rc, arms |-> <<ImgReq>>]
       ELSE [app_state |-> st, rx_complete |-> rc, arms |-> <<CmdReq>>]
  ELSE [app_state |-> STATE_PROCESS_IMAGE, rx_complete |-> 1, arms |-> <<>>]

HAL_UART_RxCpltCallback(st, cmd, rc) ==
  IF st = STATE_WAIT_START
  THEN IF MemcmpStart(cmd)
       THEN [app_state |-> STATE_RECEIVE_IMAGE, rx_complete |-> rc, arms |-> <<ImgReq>>]
       ELSE [app_state |-> st, rx_complete |-> rc, arms |-> <<CmdReq>>]
  ELSE IF st = STATE_RECEIVE_IMAGE
       THEN [app_state |-> STATE_PROCESS_IMAGE, rx_complete |-> 1, arms |-> <<>>]
       ELSE [app_state |-> st, rx_complete |-> rc, arms |-> <<>>]

(* Effect of the receive-error callback for USART2 *)
ErrorCallbackSilent(st) ==
  [app_state |-> STATE_IDLE, rx_error |-> 1, sent |-> <<>>]

ErrorCallbackKeepsState(st) ==
  [app_state |-> st, rx_error |-> 1,
   sent |-> <<TxRec(MSG_UART_ERROR, TX_TIMEOUT, "isr")>>]

HAL_UART_ErrorCallback(st) ==
  [app_state |-> STATE_IDLE, rx_error |-> 1,
   sent |-> <<TxRec(MSG_UART_ERROR, TX_TIMEOUT, "isr")>>]

(* main.c:199, 230: both callbacks act only for huart->Instance == USART2 *)
RxCpltCallbackAnyInstance(inst, st, cmd, rc) ==
  HAL_UART_RxCpltCallback(st, cmd, rc)

RxCpltCallbackOn(inst, st, cmd, rc) ==
  IF inst = "USART2"
  THEN HAL_UART_RxCpltCallback(st, cmd, rc)
  ELSE [app_state |-> st, rx_complete |-> rc, arms |-> <<>>]

ErrorCallbackAnyInstance(inst, st, re) == HAL_UART_ErrorCallback(st)

ErrorCallbackOn(inst, st, re) ==
  IF inst = "USART2"
  THEN HAL_UART_ErrorCallback(st)
  ELSE [app_state |-> st, rx_error |-> re, sent |-> <<>>]

(* the platform invokes a callback for the handle of some UART; for USART2 *)
(* a completion has freed the receive slot and an error has ended the      *)
(* transfer, for another UART the slot of USART2 is not concerned          *)
Call_RxCplt ==
  /\ nEvents < MaxCalls
  /\ \E inst \in UartInstances :
       LET r == RxCpltCallbackOn(inst, app_state, start_cmd_buffer, rx_complete)
           cur == IF inst = "USART2" THEN NoRx ELSE rx
       IN /\ app_state' = r.app_state
          /\ rx_complete' = r.rx_complete
          /\ rx' = IssueArms(cur, r.arms)
          /\ overlap' = (overlap \/ ArmsOverlap(cur, r.arms))
          /\ lastArms' = r.arms
          /\ lastCall' = [cb |-> "RxCplt", inst |-> inst]
  /\ nEvents' = nEvents + 1
  /\ UNCHANGED <<pc, rx_error, start_cmd_buffer, img_buffer, input_buffer,
                 output_buffer, network, ai_input, ai_output, ret, tx,
                 imgDone, errDone, txStatus, last_batch, engineRuns>>

Call_Error ==
  /\ nEvents < MaxCalls
  /\ \E inst \in UartInstances :
       LET r == ErrorCallbackOn(inst, app_state, rx_error)
       IN /\ app_state' = r.app_state
          /\ rx_error' = r.rx_error
          /\ tx' = tx \o r.sent
          /\ \E st \in HalStatus :
               txStatus' = IF r.sent = <<>> THEN txStatus ELSE st
          /\ rx' = IF inst = "USART2" THEN NoRx ELSE rx
          /\ lastCall' = [cb |-> "Error", inst |-> inst]
  /\ lastArms' = <<>>
  /\ nEvents' = nEvents + 1
  /\ UNCHANGED <<pc, rx_complete, start_cmd_buffer, img_buffer, input_buffer,
                 output_buffer, network, ai_input, ai_output, ret, overlap,
                 imgDone, errDone, last_batch, engineRuns>>

(* The platform has stored the requested number of bytes and raises the   *)
(* receive-complete interrupt; the request is no longer outstanding when   *)
(* the callback runs.                                                      *)
RxCpltEvent ==
  /\ rx # NoRx
  /\ nEvents < MaxEvents
  /\ \E data \in (IF rx.buf = "cmd" THEN CmdTokens ELSE Images) :
       LET cmd == IF rx.buf = "cmd" THEN data ELSE start_cmd_buffer
           r == HAL_UART_RxCpltCallback(app_state, cmd, rx_complete)
       IN /\ start_cmd_buffer' = cmd
          /\ img_buffer' = IF rx.buf = "img" THEN data ELSE img_buffer
          /\ app_state' = r.app_state
          /\ rx_complete' = r.rx_complete
          /\ rx' = IssueArms(NoRx, r.arms)
          /\ overlap' = (overlap \/ ArmsOverlap(NoRx, r.arms))
          /\ lastArms' = r.arms
  /\ lastCall' = [cb |-> "RxCplt", inst |-> "USART2"]
  /\ imgDone' = IF rx.buf = "img" THEN imgDone + 1 ELSE imgDone
  /\ nEvents' = nEvents + 1
  /\ UNCHANGED <<pc, rx_error, input_buffer, output_buffer, network,
                 ai_input, ai_output, ret, tx, errDone,
                 txStatus, last_batch, engineRuns>>

(* The platform detects a receive fault: the transfer in progress is      *)
(* abandoned with a prefix of the incoming bytes already stored, and the   *)
(* receive-error interrupt is raised.                                      *)
RxErrorEvent ==
  /\ rx # NoRx
  /\ nEvents < MaxEvents
  /\ \E k \in 0 .. MaxPartial :
       \E data \in (IF rx.buf = "cmd" THEN CmdTokens ELSE Images) :
         /\ start_cmd_buffer' = IF rx.buf = "cmd"
                                THEN StorePrefix(start_cmd_buffer, data, k, 1)
                                ELSE start_cmd_buffer
         /\ img_buffer' = IF rx.buf = "img"
                          THEN StorePrefix(img_buffer, data, k, 0)
                          ELSE img_buffer
  /\ LET r == HAL_UART_ErrorCallback(app_state)
     IN /\ app_state' = r.app_state
        /\ rx_error' = r.rx_error
        /\ tx' = tx \o r.sent
        /\ \E st \in HalStatus :
             txStatus' = IF r.sent = <<>> THEN txStatus ELSE st
  /\ lastCall' = [cb |-> "Error", inst |-> "USART2"]
  /\ rx' = NoRx
  /\ lastArms' = <<>>
  /\ errDone' = errDone + 1
  /\ nEvents' = nEvents + 1
  /\ UNCHANGED <<pc, rx_complete, input_buffer, output_buffer, network,
                 ai_input, ai_output, ret, overlap, imgDone,
                 last_batch, engineRuns>>

(* ------------------------------ main context --------------------------- *)
(* HAL_UART_Receive_IT called from main with the request req *)
MainArm(req) ==
  /\ rx' = PlatformReceiveIT(rx, req)
  /\ overlap' = (overlap \/ rx # NoRx)
  /\ lastArms' = <<req>>

MainNoIO == UNCHANGED <<rx, overlap, tx>> /\ lastArms' = <<>>

(* main.c:274-281: AI_Init, and the failure report when it returns non-zero *)
Main_AIInit ==
  /\ pc = "ai_init"
  /\ \E created \in BOOLEAN, inited \in BOOLEAN,
        inOk \in BOOLEAN, outOk \in BOOLEAN :
       /\ network' = created
       /\ ai_input' = (created /\ inited /\ inOk)
       /\ ai_output' = (created /\ inited /\ outOk)
       /\ IF AI_Init(created /\ inited, inOk, outOk) # 0
          THEN /\ tx' = Append(tx, TxRec(MSG_INIT_FAILED, TX_TIMEOUT, "main"))
               /\ pc' = "fail_tx"
          ELSE /\ tx' = tx
               /\ pc' = "banner"
  /\ lastArms' = <<>>
  /\ UNCHANGED <<app_state, rx_complete, rx_error, start_cmd_buffer, img_buffer,
                 input_buffer, output_buffer, ret, rx, overlap, imgDone,
                 errDone, nEvents,
                 txStatus, last_batch, engineRuns, lastCall>>

Main_BannerSkipped ==
  /\ pc = "banner"
  /\ tx' = tx
  /\ pc' = "banner_tx"
  /\ lastArms' = <<>>
  /\ UNCHANGED <<app_state, rx_complete, rx_error, start_cmd_buffer, img_buffer,
                 input_buffer, output_buffer, network, ai_input, ai_output,
                 ret, rx, overlap, imgDone, errDone, nEvents,
                 txStatus, last_batch, engineRuns, lastCall>>

(* main.c:284-291: delay, then the ready message *)
Main_Banner ==
  /\ pc = "banner"
  /\ tx' = Append(tx, TxRec(MSG_READY, HAL_MAX_DELAY, "main"))
  /\ pc' = "banner_tx"
  /\ lastArms' = <<>>
  /\ UNCHANGED <<app_state, rx_complete, rx_error, start_cmd_buffer, img_buffer,
                 input_buffer, output_buffer, network, ai_input, ai_output,
                 ret, rx, overlap, imgDone, errDone, nEvents,
                 txStatus, last_batch, engineRuns, lastCall>>

TxReturnPcNoHalt(p) ==
  CASE p = "fail_tx" -> "boot_wait"
    [] p = "banner_tx" -> "boot_wait"
    [] p = "result_tx" -> "wait_after_inference"

(* the blocking HAL_UART_Transmit of the main context returns *)
TxReturnPc(p) ==
  CASE p = "fail_tx" -> "halt"
    [] p = "banner_tx" -> "boot_wait"
    [] p = "result_tx" -> "wait_after_inference"

(* a variant that hands a failed message to the platform a second time *)
Main_TransmitRetries ==
  /\ pc \in {"fail_tx", "banner_tx", "result_tx"}
  /\ \E st \in HalStatus :
       /\ txStatus' = st
       /\ IF st # "HAL_OK" /\ txStatus = "HAL_OK"
          THEN tx' = Append(tx, tx[Len(tx)]) /\ pc' = pc
          ELSE tx' = tx /\ pc' = TxReturnPc(pc)
  /\ lastArms' = <<>>
  /\ UNCHANGED <<rx, overlap>>
  /\ UNCHANGED <<app_state, rx_complete, rx_error, start_cmd_buffer, img_buffer,
                 input_buffer, output_buffer, network, ai_input, ai_output,
                 ret, imgDone, errDone, nEvents,
                 last_batch, engineRuns, lastCall>>

Main_TransmitReturns ==
  /\ pc \in {"fail_tx", "banner_tx", "result_tx"}
  /\ \E st \in HalStatus : txStatus' = st
  /\ pc' = TxReturnPc(pc)
  /\ MainNoIO
  /\ UNCHANGED <<app_state, rx_complete, rx_error, start_cmd_buffer, img_buffer,
                 input_buffer, output_buffer, network, ai_input, ai_output,
                 ret, imgDone, errDone, nEvents,
                 last_batch, engineRuns, lastCall>>

(* main.c:294, 314, 324: app_state = STATE_WAIT_START *)
SetWaitReturnPc(p) ==
  CASE p = "boot_wait" -> "boot_arm"
    [] p = "wait_after_inference" -> "arm_after_inference"
    [] p = "wait_after_error" -> "arm_after_error"

(* a variant that arms without setting the state first *)
Main_SetWaitStartSkipped ==
  /\ pc \in {"boot_wait", "wait_after_inference", "wait_after_error"}
  /\ pc' = SetWaitReturnPc(pc)
  /\ MainNoIO
  /\ UNCHANGED <<app_state, rx_complete, rx_error, start_cmd_buffer, img_buffer,
                 input_buffer, output_buffer, network, ai_input, ai_output,
                 ret, imgDone, errDone, nEvents,
                 txStatus, last_batch, engineRuns, lastCall>>

Main_SetWaitStart ==
  /\ pc \in {"boot_wait", "wait_after_inference", "wait_after_error"}
  /\ app_state' = STATE_WAIT_START
  /\ pc' = SetWaitReturnPc(pc)
  /\ MainNoIO
  /\ UNCHANGED <<rx_complete, rx_error, start_cmd_buffer, img_buffer,
                 input_buffer, output_buffer, network, ai_input, ai_output,
                 ret, imgDone, errDone, nEvents,
                 txStatus, last_batch, engineRuns, lastCall>>

(* main.c:295: HAL_UART_Receive_IT(&huart2, start_cmd_buffer, 5) at boot *)
Main_BootArm ==
  /\ pc = "boot_arm"
  /\ MainArm(CmdReq)
  /\ pc' = "chk_complete"
  /\ UNCHANGED <<app_state, rx_complete, rx_error, start_cmd_buffer, img_buffer,
                 input_buffer, output_buffer, network, ai_input, ai_output,
                 ret, tx, imgDone, errDone, nEvents,
                 txStatus, last_batch, engineRuns, lastCall>>

(* main.c:308: if (rx_complete) *)
Main_CheckComplete ==
  /\ pc = "chk_complete"
  /\ pc' = IF rx_complete # 0 THEN "clr_complete" ELSE "chk_error"
  /\ MainNoIO
  /\ UNCHANGED <<app_state, rx_complete, rx_error, start_cmd_buffer, img_buffer,
                 input_buffer, output_buffer, network, ai_input, ai_output,
                 ret, imgDone, errDone, nEvents,
                 txStatus, last_batch, engineRuns, lastCall>>

(* main.c:310: rx_complete = 0 *)
Main_ClearComplete ==
  /\ pc = "clr_complete"
  /\ rx_complete' = 0
  /\ pc' = "quantize"
  /\ MainNoIO
  /\ UNCHANGED <<app_state, rx_error, start_cmd_buffer, img_buffer,
                 input_buffer, output_buffer, network, ai_input, ai_output,
                 ret, imgDone, errDone, nEvents,
                 txStatus, last_batch, engineRuns, lastCall>>

Main_QuantizeStale ==
  /\ pc = "quantize"
  /\ input_buffer' = [i \in Pixels |-> IF i = 0 THEN input_buffer[i]
                                        ELSE Quantize(img_buffer[i])]
  /\ pc' = "ai_run"
  /\ MainNoIO
  /\ UNCHANGED <<app_state, rx_complete, rx_error, start_cmd_buffer, img_buffer,
                 output_buffer, network, ai_input, ai_output, ret, imgDone,
                 errDone, nEvents,
                 txStatus, last_batch, engineRuns, lastCall>>

(* a variant that converts the image where it lies *)
Main_QuantizeInPlace ==
  /\ pc = "quantize"
  /\ input_buffer' = [i \in Pixels |-> Quantize(img_buffer[i])]
  /\ img_buffer' = [i \in Pixels |-> (img_buffer[i] + 128) % 256]
  /\ pc' = "ai_run"
  /\ MainNoIO
  /\ UNCHANGED <<app_state, rx_complete, rx_error, start_cmd_buffer,
                 output_buffer, network, ai_input, ai_output, ret, imgDone,
                 errDone, nEvents,
                 txStatus, last_batch, engineRuns, lastCall>>

(* main.c:147-150: the conversion loop of ProcessInference *)
Main_Quantize ==
  /\ pc = "quantize"
  /\ input_buffer' = [i \in Pixels |-> Quantize(img_buffer[i])]
  /\ pc' = "ai_run"
  /\ MainNoIO
  /\ UNCHANGED <<app_state, rx_complete, rx_error, start_cmd_buffer, img_buffer,
                 output_buffer, network, ai_input, ai_output, ret, imgDone,
                 errDone, nEvents,
                 txStatus, last_batch, engineRuns, lastCall>>

(* main.c:154: ret = AI_Run(input_buffer, output_buffer); the engine      *)
(* reports a batch count and, for a batch of one, has written the scores.  *)
Main_AIRun ==
  /\ pc = "ai_run"
  /\ \E b \in BatchVals :
       LET invoked == AI_RunInvokesEngine(network, ai_input, ai_output)
       IN /\ ret' = AI_Run(network, ai_input, ai_output, b)
          /\ last_batch' = IF invoked THEN b ELSE last_batch
          /\ engineRuns' = IF invoked THEN engineRuns + 1 ELSE engineRuns
          /\ output_buffer' = IF invoked /\ b = 1
                              THEN EngineOutput(input_buffer)
                              ELSE output_buffer
  /\ pc' = "respond"
  /\ MainNoIO
  /\ UNCHANGED <<app_state, rx_complete, rx_error, start_cmd_buffer, img_buffer,
                 input_buffer, network, ai_input, ai_output, imgDone, errDone,
                 nEvents,
                 txStatus, lastCall>>

(* main.c:156-179: what ProcessInference transmits for the result r of     *)
(* AI_Run and the score vector out                                         *)
InferenceResponseStale(r, out) ==
  IF r = 0
  THEN SendResult(FindMaxClass(out))
  ELSE SendResult(FindMaxClass(out))

InferenceResponseBoth(r, out) ==
  IF r = 0
  THEN SendResult(FindMaxClass(out))
  ELSE SendResult(FindMaxClass(out))
       \o <<TxRec(MSG_INFERENCE_FAILED, TX_TIMEOUT, "main")>>

InferenceResponse(r, out) ==
  IF r = 0
  THEN SendResult(FindMaxClass(out))
  ELSE <<TxRec(MSG_INFERENCE_FAILED, TX_TIMEOUT, "main")>>

Main_Respond ==
  /\ pc = "respond"
  /\ tx' = tx \o InferenceResponse(ret, output_buffer)
  /\ pc' = "result_tx"
  /\ lastArms' = <<>>
  /\ UNCHANGED <<app_state, rx_complete, rx_error, start_cmd_buffer, img_buffer,
                 input_buffer, output_buffer, network, ai_input, ai_output,
                 ret, rx, overlap, imgDone, errDone, nEvents,
                 txStatus, last_batch, engineRuns, lastCall>>

Main_ArmAfterInferenceSkipped ==
  /\ pc = "arm_after_inference"
  /\ pc' = "chk_error"
  /\ MainNoIO
  /\ UNCHANGED <<app_state, rx_complete, rx_error, start_cmd_buffer, img_buffer,
                 input_buffer, output_buffer, network, ai_input, ai_output,
                 ret, imgDone, errDone, nEvents,
                 txStatus, last_batch, engineRuns, lastCall>>

(* main.c:315: HAL_UART_Receive_IT(&huart2, start_cmd_buffer, 5) *)
Main_ArmAfterInference ==
  /\ pc = "arm_after_inference"
  /\ MainArm(CmdReq)
  /\ pc' = "chk_error"
  /\ UNCHANGED <<app_state, rx_complete, rx_error, start_cmd_buffer, img_buffer,
                 input_buffer, output_buffer, network, ai_input, ai_output,
                 ret, tx, imgDone, errDone, nEvents,
                 txStatus, last_batch, engineRuns, lastCall>>

Main_CheckErrorInverted ==
  /\ pc = "chk_error"
  /\ pc' = IF rx_error = 0 THEN "clr_error" ELSE "chk_complete"
  /\ MainNoIO
  /\ UNCHANGED <<app_state, rx_complete, rx_error, start_cmd_buffer, img_buffer,
                 input_buffer, output_buffer, network, ai_input, ai_output,
                 ret, imgDone, errDone, nEvents,
                 txStatus, last_batch, engineRuns, lastCall>>

(* main.c:319: if (rx_error) *)
Main_CheckError ==
  /\ pc = "chk_error"
  /\ pc' = IF rx_error # 0 THEN "clr_error" ELSE "chk_complete"
  /\ MainNoIO
  /\ UNCHANGED <<app_state, rx_complete, rx_error, start_cmd_buffer, img_buffer,
                 input_buffer, output_buffer, network, ai_input, ai_output,
                 ret, imgDone, errDone, nEvents,
                 txStatus, last_batch, engineRuns, lastCall>>

(* main.c:321: rx_error = 0 *)
Main_ClearError ==
  /\ pc = "clr_error"
  /\ rx_error' = 0
  /\ pc' = "wait_after_error"
  /\ MainNoIO
  /\ UNCHANGED <<app_state, rx_complete, start_cmd_buffer, img_buffer,
                 input_buffer, output_buffer, network, ai_input, ai_output,
                 ret, imgDone, errDone, nEvents,
                 txStatus, last_batch, engineRuns, lastCall>>

Main_ArmAfterErrorImage ==
  /\ pc = "arm_after_error"
  /\ MainArm(ImgReq)
  /\ pc' = "chk_complete"
  /\ UNCHANGED <<app_state, rx_complete, rx_error, start_cmd_buffer, img_buffer,
                 input_buffer, output_buffer, network, ai_input, ai_output,
                 ret, tx, imgDone, errDone, nEvents,
                 txStatus, last_batch, engineRuns, lastCall>>

Main_ArmAfterErrorSkipped ==
  /\ pc = "arm_after_error"
  /\ pc' = "chk_complete"
  /\ MainNoIO
  /\ UNCHANGED <<app_state, rx_complete, rx_error, start_cmd_buffer, img_buffer,
                 input_buffer, output_buffer, network, ai_input, ai_output,
                 ret, imgDone, errDone, nEvents,
                 txStatus, last_batch, engineRuns, lastCall>>

(* main.c:325: HAL_UART_Receive_IT(&huart2, start_cmd_buffer, 5) *)
Main_ArmAfterError ==
  /\ pc = "arm_after_error"
  /\ MainArm(CmdReq)
  /\ pc' = "chk_complete"
  /\ UNCHANGED <<app_state, rx_complete, rx_error, start_cmd_buffer, img_buffer,
                 input_buffer, output_buffer, network, ai_input, ai_output,
                 ret, tx, imgDone, errDone, nEvents,
                 txStatus, last_batch, engineRuns, lastCall>>

(* ----------------------------- specification --------------------------- *)
Init ==
  /\ pc = "ai_init"
  /\ app_state = STATE_IDLE
  /\ rx_complete = 0
  /\ rx_error = 0
  /\ start_cmd_buffer = <<0, 0, 0, 0, 0>>
  /\ img_buffer = [i \in Pixels |-> 0]
  /\ input_buffer = [i \in Pixels |-> 0]
  /\ output_buffer = [c \in 0 .. (NUM_CLASSES - 1) |-> 0]
  /\ network = FALSE
  /\ ai_input = FALSE
  /\ ai_output = FALSE
  /\ ret = 0
  /\ rx = NoRx
  /\ tx = <<>>
  /\ lastArms = <<>>
  /\ overlap = FALSE
  /\ imgDone = 0
  /\ errDone = 0
  /\ nEvents = 0
  /\ txStatus = "HAL_OK"
  /\ last_batch = 0
  /\ engineRuns = 0
  /\ lastCall = NoCall

Main ==
  \/ Main_AIInit
  \/ Main_Banner
  \/ Main_TransmitReturns
  \/ Main_SetWaitStart
  \/ Main_BootArm
  \/ Main_CheckComplete
  \/ Main_ClearComplete
  \/ Main_Quantize
  \/ Main_AIRun
  \/ Main_Respond
  \/ Main_ArmAfterInference
  \/ Main_CheckError
  \/ Main_ClearError
  \/ Main_ArmAfterError

Next ==
  \/ Main_AIInit
  \/ Main_Banner
  \/ Main_TransmitReturns
  \/ Main_SetWaitStart
  \/ Main_BootArm
  \/ Main_CheckComplete
  \/ Main_ClearComplete
  \/ Main_Quantize
  \/ Main_AIRun
  \/ Main_Respond
  \/ Main_ArmAfterInference
  \/ Main_CheckError
  \/ Main_ClearError
  \/ Main_ArmAfterError
  \/ RxCpltEvent
  \/ RxErrorEvent

Spec == Init /\ [][Next]_vars

(* the main context always runs when no interrupt handler is executing *)
LiveSpec == Init /\ [][Next]_vars /\ WF_vars(Main)

TypeOK ==
  /\ app_state \in AppState_t
  /\ rx_complete \in {0, 1}
  /\ rx_error \in {0, 1}
  /\ rx \in {NoRx, CmdReq, ImgReq}
  /\ \A i \in Pixels : input_buffer[i] \in -128 .. 127
  /\ txStatus \in HalStatus
  /\ last_batch \in BatchVals \cup {0}
  /\ engineRuns \in 0 .. MaxEvents
  /\ lastCall.cb \in {"none", "RxCplt", "Error"}

(* ------------- specifications for the pure steps of the pipeline ------- *)
Classes == 0 .. (NUM_CLASSES - 1)
TieExample == [c \in Classes |-> IF c < 2 THEN 5 ELSE 3]
BoundaryExample == [c \in Classes |-> IF c = 9 THEN -127 ELSE -128]
OutputVectors ==
  [Classes -> {-128, -127, 5}] \cup [Classes -> {3, 5, 127}]

(* ProcessInference after a successful AI_Run, for every score vector *)
InitReduce ==
  /\ pc = "respond"
  /\ app_state = STATE_PROCESS_IMAGE
  /\ rx_complete = 0
  /\ rx_error = 0
  /\ start_cmd_buffer = START_TOKEN
  /\ img_buffer = [i \in Pixels |-> 0]
  /\ input_buffer = [i \in Pixels |-> -128]
  /\ output_buffer \in OutputVectors
  /\ network = TRUE
  /\ ai_input = TRUE
  /\ ai_output = TRUE
  /\ ret = 0
  /\ rx = NoRx
  /\ tx = <<>>
  /\ lastArms = <<>>
  /\ overlap = FALSE
  /\ imgDone = 1
  /\ errDone = 0
  /\ nEvents = 2
  /\ txStatus = "HAL_OK"
  /\ last_batch = 1
  /\ engineRuns = 1
  /\ lastCall = [cb |-> "RxCplt", inst |-> "USART2"]

NextReduce == Main_Respond

SpecReduce == InitReduce /\ [][NextReduce]_vars

(* the conversion loop of ProcessInference, for images that put every     *)
(* sample value at every index                                             *)
InitQuantize ==
  /\ pc = "quantize"
  /\ app_state = STATE_PROCESS_IMAGE
  /\ rx_complete = 0
  /\ rx_error = 0
  /\ start_cmd_buffer = START_TOKEN
  /\ img_buffer \in {ShiftImage(s) : s \in 0 .. 255}
  /\ input_buffer = [i \in Pixels |-> 0]
  /\ output_buffer = [c \in Classes |-> 0]
  /\ network = TRUE
  /\ ai_input = TRUE
  /\ ai_output = TRUE
  /\ ret = 0
  /\ rx = NoRx
  /\ tx = <<>>
  /\ lastArms = <<>>
  /\ overlap = FALSE
  /\ imgDone = 1
  /\ errDone = 0
  /\ nEvents = 2
  /\ txStatus = "HAL_OK"
  /\ last_batch = 0
  /\ engineRuns = 0
  /\ lastCall = [cb |-> "RxCplt", inst |-> "USART2"]

NextQuantize == Main_Quantize

SpecQuantize == InitQuantize /\ [][NextQuantize]_vars

(* AI_Run on its own: every combination of null and non-null handles, for  *)
(* a range of input tensors and every batch count in BatchVals             *)
RunInputs ==
  {[i \in Pixels |-> Quantize(ShiftImage(s)[i])] : s \in 0 .. (MaxRunInputs - 1)}

InitAIRun ==
  /\ pc = "ai_run"
  /\ app_state = STATE_PROCESS_IMAGE
  /\ rx_complete = 0
  /\ rx_error = 0
  /\ start_cmd_buffer = START_TOKEN
  /\ img_buffer = [i \in Pixels |-> 0]
  /\ input_buffer \in RunInputs
  /\ output_buffer = [c \in Classes |-> 0]
  /\ network \in BOOLEAN
  /\ ai_input \in BOOLEAN
  /\ ai_output \in BOOLEAN
  /\ ret = 0
  /\ rx = NoRx
  /\ tx = <<>>
  /\ lastArms = <<>>
  /\ overlap = FALSE
  /\ imgDone = 1
  /\ errDone = 0
  /\ nEvents = 2
  /\ txStatus = "HAL_OK"
  /\ last_batch = 0
  /\ engineRuns = 0
  /\ lastCall = [cb |-> "RxCplt", inst |-> "USART2"]

NextAIRun == Main_AIRun

SpecAIRun == InitAIRun /\ [][NextAIRun]_vars

(* the two callbacks on their own, invoked in every combination of state   *)
(* and flags the program passes through, for USART2 and for another UART   *)
CallStates ==
  {<<STATE_IDLE, 0, 0>>, <<STATE_IDLE, 0, 1>>, <<STATE_WAIT_START, 0, 0>>,
   <<STATE_RECEIVE_IMAGE, 0, 0>>, <<STATE_PROCESS_IMAGE, 1, 0>>,
   <<STATE_PROCESS_IMAGE, 0, 0>>}

InitCallbacks ==
  /\ pc = "chk_complete"
  /\ \E cs \in CallStates :
       /\ app_state = cs[1]
       /\ rx_complete = cs[2]
       /\ rx_error = cs[3]
  /\ start_cmd_buffer \in CmdTokens
  /\ img_buffer \in Images
  /\ input_buffer = [i \in Pixels |-> 0]
  /\ output_buffer = [c \in Classes |-> 0]
  /\ network = TRUE
  /\ ai_input = TRUE
  /\ ai_output = TRUE
  /\ ret = 0
  /\ rx = NoRx
  /\ tx = <<>>
  /\ lastArms = <<>>
  /\ overlap = FALSE
  /\ imgDone = 0
  /\ errDone = 0
  /\ nEvents = 0
  /\ txStatus = "HAL_OK"
  /\ last_batch = 0
  /\ engineRuns = 0
  /\ lastCall = NoCall

NextCallbacks == Call_RxCplt \/ Call_Error

SpecCallbacks == InitCallbacks /\ [][NextCallbacks]_vars

(* =============================== claims ================================ *)
NumSent(m) == Cardinality({i \in 1 .. Len(tx) : tx[i].msg = m})

DigitLines ==
  <<"0\r\n", "1\r\n", "2\r\n", "3\r\n", "4\r\n",
    "5\r\n", "6\r\n", "7\r\n", "8\r\n", "9\r\n">>

IsDigitLine(m) == \E d \in 1 .. NUM_CLASSES : m = DigitLines[d]

NumResponses ==
  Cardinality({i \in 1 .. Len(tx) :
                 IsDigitLine(tx[i].msg) \/ tx[i].msg = MSG_INFERENCE_FAILED})

(* the step is a receive-complete event *)
IsRxCpltStep == nEvents' = nEvents + 1 /\ errDone' = errDone

(* the pipeline owns the image: from rx_complete set to ProcessInference   *)
(* returned *)
PipelineWindow ==
  \/ rx_complete = 1
  \/ pc \in {"clr_complete", "quantize", "ai_run", "respond", "result_tx"}

(* C1: a receive-complete event in STATE_WAIT_START moves to               *)
(* STATE_RECEIVE_IMAGE and arms exactly one 784-byte receive into the      *)
(* image buffer when the five command bytes are "START"; for any other     *)
(* content the state stays STATE_WAIT_START and exactly one 5-byte         *)
(* receive into the command buffer is re-armed.                            *)
C1_StartDispatch ==
  [][(IsRxCpltStep /\ app_state = STATE_WAIT_START) =>
       IF start_cmd_buffer' = START_TOKEN
       THEN /\ app_state' = STATE_RECEIVE_IMAGE
            /\ lastArms' = <<[buf |-> "img", len |-> 784]>>
            /\ rx' = [buf |-> "img", len |-> 784]
       ELSE /\ app_state' = STATE_WAIT_START
            /\ lastArms' = <<[buf |-> "cmd", len |-> 5]>>
            /\ rx' = [buf |-> "cmd", len |-> 5]]_vars

C1_Witness ==
  /\ app_state = STATE_RECEIVE_IMAGE
  /\ start_cmd_buffer = START_TOKEN
  /\ lastArms = <<ImgReq>>
  /\ rx = ImgReq

(* C2: no HAL_UART_Receive_IT call (boot, receive-complete callback, both  *)
(* main-loop branches) is ever issued while a receive is outstanding.      *)
C2_SingleOutstandingReceive == overlap = FALSE

C2_Witness ==
  /\ pc = "chk_complete"
  /\ lastArms = <<CmdReq>>
  /\ rx = CmdReq
  /\ errDone > 0
  /\ imgDone > 0

(* C3: from the image receive completing until ProcessInference has        *)
(* returned, no receive is outstanding into any buffer.                    *)
C3_NoReceiveDuringPipeline == PipelineWindow => rx = NoRx

C3_Witness == pc = "quantize" /\ imgDone > 0 /\ rx = NoRx

(* C4: every transmission is issued from the main context; the interrupt   *)
(* context never hands bytes to the transmit primitive.                    *)
C4_NoTransmitFromInterrupt == \A i \in 1 .. Len(tx) : tx[i].ctx = "main"

(* C5: after a receive-error event the device is eventually in             *)
(* STATE_WAIT_START with the 5-byte command receive armed.                 *)
C5_ErrorRecovers ==
  (rx_error = 1) ~>
    (app_state = STATE_WAIT_START /\ rx = CmdReq /\ rx_error = 0)

C5_Witness ==
  /\ errDone > 0
  /\ app_state = STATE_WAIT_START
  /\ rx = CmdReq
  /\ rx_error = 0
  /\ pc = "chk_complete"
  /\ lastArms = <<CmdReq>>

(* C6: every receive-error event causes exactly one transmission of        *)
(* "ERROR: UART error\r\n", and no other message is emitted for it: all    *)
(* other transmissions are the boot message and the answers to completed   *)
(* image receives.                                                         *)
C6_OneUartErrorPerFault ==
  /\ NumSent("ERROR: UART error\r\n") = errDone
  /\ Len(tx) - NumSent("ERROR: UART error\r\n") <= 1 + imgDone

C6_Witness == errDone = 2 /\ NumSent(MSG_UART_ERROR) = 2 /\ rx_error = 0

(* C7: every completed image receive is answered by exactly one            *)
(* transmission, a digit line or "ERROR: Inference failed\r\n", and no     *)
(* such response exists without a completed image receive: the responses   *)
(* sent equal the image receives completed, less the one whose pipeline    *)
(* has not transmitted yet.                                                *)
C7_OneResponsePerImage ==
  NumResponses =
    imgDone - (IF rx_complete = 1 \/ pc \in {"clr_complete", "quantize",
                                              "ai_run", "respond"}
               THEN 1 ELSE 0)

C7_Witness ==
  /\ imgDone = 2
  /\ NumResponses = 2
  /\ NumSent("ERROR: Inference failed\r\n") = 1
  /\ \E i \in 1 .. Len(tx) : IsDigitLine(tx[i].msg)

(* C8: after the image receive completes the main loop runs the pipeline   *)
(* to completion, transmits the response, sets STATE_WAIT_START and arms   *)
(* the 5-byte command receive.                                             *)
RearmedAfterInference ==
  /\ pc = "chk_error"
  /\ lastArms = <<CmdReq>>
  /\ app_state = STATE_WAIT_START
  /\ rx = CmdReq
  /\ rx_complete = 0
  /\ NumResponses = imgDone

C8_PipelineCompletesAndRearms == (rx_complete = 1) ~> RearmedAfterInference

C8_Witness == RearmedAfterInference /\ imgDone > 0 /\ ret # 0

(* C9: the class ProcessInference reports is the lowest index holding the  *)
(* maximum of the ten scores and lies in 0..9.                             *)
LowestMaxIndex(out) ==
  CHOOSE k \in Classes :
    /\ \A j \in Classes : out[j] <= out[k]
    /\ \A j \in Classes : j < k => out[j] < out[k]

C9_LowestIndexOfMaximum ==
  pc = "result_tx" =>
    /\ Len(tx) = 1
    /\ tx[1].msg = DigitLines[LowestMaxIndex(output_buffer) + 1]
    /\ FindMaxClass(output_buffer) \in 0 .. 9
    /\ output_buffer = BoundaryExample => tx[1].msg = "9\r\n"

C9_Witness ==
  /\ pc = "result_tx"
  /\ output_buffer = TieExample
  /\ tx[1].msg = "0\r\n"

(* C10: quantization stores img_buffer[i] - 128 at every index i, a value  *)
(* in -128..127, for every sample value 0..255.                            *)
C10_QuantizeIsOffset ==
  pc = "ai_run" =>
    \A i \in Pixels :
      /\ input_buffer[i] = img_buffer[i] - 128
      /\ input_buffer[i] \in -128 .. 127

C10_Witness ==
  /\ pc = "ai_run"
  /\ img_buffer[0] = 255 /\ input_buffer[0] = 127
  /\ img_buffer[1] = 0 /\ input_buffer[1] = -128
  /\ img_buffer[129] = 128 /\ input_buffer[129] = 0

(* C11: when AI_Run fails for a completed image the device transmits       *)
(* "ERROR: Inference failed\r\n" and nothing else (no class digit from the *)
(* old contents of output_buffer), and afterwards is in STATE_WAIT_START   *)
(* with the 5-byte receive armed.                                          *)
C11_InferenceFailureReported ==
  /\ [][(pc = "respond" /\ ret # 0 /\ pc' # pc) =>
          tx' = Append(tx, [msg |-> "ERROR: Inference failed\r\n",
                            timeout |-> 1000, ctx |-> "main"])]_vars
  /\ ((pc = "result_tx" /\ ret # 0) ~> RearmedAfterInference)

(* a failed inference followed by a transaction answered with a digit *)
C11_Witness ==
  /\ imgDone = 2
  /\ NumResponses = 2
  /\ \E i \in 1 .. Len(tx) : \E j \in 1 .. Len(tx) :
       /\ i < j
       /\ tx[i].msg = MSG_INFERENCE_FAILED
       /\ IsDigitLine(tx[j].msg)
  /\ app_state = STATE_WAIT_START
  /\ rx = CmdReq

(* C12: if AI_Init returns non-zero (create-and-init reports an error or a *)
(* descriptor is null) the device transmits one failure report and halts   *)
(* forever: no banner, no receive armed, app_state stays STATE_IDLE, no    *)
(* event and no later transmission.                                        *)
InitFailed == pc \in {"fail_tx", "halt"}

C12_InitFailureHalts ==
  /\ []((pc # "ai_init" /\ ~(network /\ ai_input /\ ai_output)) => InitFailed)
  /\ [](InitFailed =>
          /\ tx = <<[msg |-> "AI Init Failed!\r\n", timeout |-> 1000,
                     ctx |-> "main"]>>
          /\ rx = NoRx
          /\ lastArms = <<>>
          /\ app_state = STATE_IDLE
          /\ nEvents = 0)
  /\ [][InitFailed => InitFailed']_vars

C12_Witness ==
  /\ pc = "halt"
  /\ network
  /\ ~ai_input
  /\ NumSent(MSG_INIT_FAILED) = 1

(* C13: the readiness banner is transmitted exactly once per boot, only    *)
(* after AI_Init succeeded, and its transmit has returned before app_state *)
(* becomes STATE_WAIT_START and the first 5-byte receive is armed; no      *)
(* receive event is delivered before it.                                   *)
C13_BannerOnceBeforeArming ==
  /\ NumSent("STM32F411 Ready - Cube AI Initialized\r\n") =
       (IF pc \in {"ai_init", "banner", "fail_tx", "halt"} THEN 0 ELSE 1)
  /\ NumSent(MSG_READY) = 1 =>
       (tx[1].msg = MSG_READY /\ network /\ ai_input /\ ai_output)
  /\ (app_state # STATE_IDLE \/ rx # NoRx \/ lastArms # <<>> \/ nEvents > 0) =>
       (NumSent(MSG_READY) = 1 /\ pc # "banner_tx")

C13_Witness ==
  /\ pc = "chk_complete"
  /\ tx = <<TxRec(MSG_READY, HAL_MAX_DELAY, "main")>>
  /\ app_state = STATE_WAIT_START
  /\ rx = CmdReq
  /\ nEvents = 0

(* C14: a receive-complete event carrying an invalid 5-byte token          *)
(* transmits nothing, leaves STATE_WAIT_START with one 5-byte receive      *)
(* re-armed and sets neither flag; it changes nothing of the program but   *)
(* the command buffer, which the next completed command receive overwrites *)
(* whole, so a later START and image are handled as if it was never sent.  *)
C14_InvalidTokenIgnored ==
  [][(IsRxCpltStep /\ app_state = STATE_WAIT_START
        /\ start_cmd_buffer' # START_TOKEN) =>
       /\ tx' = tx
       /\ app_state' = STATE_WAIT_START
       /\ rx' = CmdReq
       /\ rx = CmdReq
       /\ lastArms' = <<CmdReq>>
       /\ rx_complete' = rx_complete
       /\ rx_error' = rx_error
       /\ UNCHANGED <<pc, img_buffer, input_buffer, output_buffer, network,
                      ai_input, ai_output, ret, overlap, imgDone, errDone>>]_vars

(* two invalid tokens in a row, then a START and an image answered *)
C14_Witness ==
  /\ nEvents = 4
  /\ errDone = 0
  /\ imgDone = 1
  /\ start_cmd_buffer = START_TOKEN
  /\ NumResponses = 1
  /\ Len(tx) = 2
  /\ app_state = STATE_WAIT_START
  /\ rx = CmdReq

(* C15 as stated: a receive-error event takes app_state to                 *)
(* STATE_WAIT_START, and once STATE_WAIT_START has been entered app_state  *)
(* is never STATE_IDLE again.                                              *)
C15_Original ==
  [][/\ (errDone' = errDone + 1) => app_state' = STATE_WAIT_START
     /\ (app_state # STATE_IDLE) => app_state' # STATE_IDLE]_vars

(* C15 amended: a receive-error event in STATE_WAIT_START or               *)
(* STATE_RECEIVE_IMAGE takes app_state to STATE_IDLE with nothing armed,   *)
(* and the main loop's error branch then sets STATE_WAIT_START; the only   *)
(* changes of app_state are Idle -> WaitStart, WaitStart -> ReceiveImage,  *)
(* ReceiveImage -> ProcessImage, ProcessImage -> WaitStart and the two     *)
(* error edges into Idle.                                                  *)
StateEdges ==
  {<<STATE_IDLE, STATE_WAIT_START>>,
   <<STATE_WAIT_START, STATE_RECEIVE_IMAGE>>,
   <<STATE_RECEIVE_IMAGE, STATE_PROCESS_IMAGE>>,
   <<STATE_PROCESS_IMAGE, STATE_WAIT_START>>,
   <<STATE_WAIT_START, STATE_IDLE>>,
   <<STATE_RECEIVE_IMAGE, STATE_IDLE>>}

C15_StateEdges ==
  [][/\ (app_state' # app_state) => <<app_state, app_state'>> \in StateEdges
     /\ (errDone' = errDone + 1) =>
          /\ app_state \in {STATE_WAIT_START, STATE_RECEIVE_IMAGE}
          /\ app_state' = STATE_IDLE
          /\ rx' = NoRx
     /\ (app_state = STATE_IDLE /\ app_state' # STATE_IDLE /\ nEvents > 0) =>
          (pc = "wait_after_error" /\ app_state' = STATE_WAIT_START)
     /\ (app_state' = STATE_IDLE /\ app_state # STATE_IDLE) =>
          errDone' = errDone + 1]_vars

C15_Witness ==
  /\ errDone = 2
  /\ imgDone = 1
  /\ app_state = STATE_WAIT_START
  /\ pc = "arm_after_error"

(* C16: a receive error during STATE_RECEIVE_IMAGE abandons the image: the *)
(* receive is over without rx_complete being set or an image counted, the  *)
(* only transmission is the UART-error message, the pipeline is entered    *)
(* only for a completed image receive, and an image receive is armed only  *)
(* by the completion of a command receive that delivered "START".          *)
C16_PartialImageAbandoned ==
  [][/\ (errDone' = errDone + 1 /\ app_state = STATE_RECEIVE_IMAGE) =>
          /\ rx = ImgReq
          /\ rx' = NoRx
          /\ rx_complete' = 0
          /\ imgDone' = imgDone
          /\ tx' = Append(tx, TxRec(MSG_UART_ERROR, TX_TIMEOUT, "isr"))
          /\ pc' = pc
          /\ pc \in {"chk_complete", "chk_error"}
     /\ (rx_complete' = 1 /\ rx_complete = 0) =>
          (imgDone' = imgDone + 1 /\ rx = ImgReq)
     /\ (pc' = "clr_complete" /\ pc # "clr_complete") => rx_complete = 1
     /\ (rx' = ImgReq /\ rx # ImgReq) =>
          /\ IsRxCpltStep
          /\ rx = CmdReq
          /\ start_cmd_buffer' = START_TOKEN]_vars

(* an image receive interrupted after its first bytes, no response sent,   *)
(* and the image receive armed again by a fresh START                      *)
C16_Witness ==
  /\ errDone = 1
  /\ imgDone = 0
  /\ img_buffer[1] = 1
  /\ NumResponses = 0
  /\ nEvents = 3
  /\ app_state = STATE_RECEIVE_IMAGE
  /\ rx = ImgReq

(* C17: the main loop consumes rx_complete and rx_error in the order the   *)
(* interrupt context set them: whenever it clears one flag the other is    *)
(* not pending, and a flag is set only while the other is clear, so no     *)
(* flag set earlier is ever overtaken.                                     *)
C17_FlagsConsumedInOrder ==
  [][/\ (rx_complete = 1 /\ rx_complete' = 0) => (rx_error = 0 /\ rx_error' = 0)
     /\ (rx_error = 1 /\ rx_error' = 0) => (rx_complete = 0 /\ rx_complete' = 0)
     /\ (rx_complete = 0 /\ rx_complete' = 1) => rx_error = 0
     /\ (rx_error = 0 /\ rx_error' = 1) => rx_complete = 0]_vars

(* an image completion consumed, then a receive error set and consumed *)
C17_Witness ==
  /\ imgDone = 1
  /\ errDone = 1
  /\ NumResponses = 1
  /\ tx[Len(tx)].msg = MSG_UART_ERROR
  /\ rx_complete = 0
  /\ rx_error = 0
  /\ pc = "wait_after_error"

(* C18: while app_state is STATE_RECEIVE_IMAGE only a receive-complete or  *)
(* receive-error event changes it: every step of the main loop leaves      *)
(* app_state, the outstanding image receive and the transmit log alone and *)
(* issues no HAL_UART_Receive_IT call, so without an event the device      *)
(* stays in STATE_RECEIVE_IMAGE.                                           *)
C18_ReceivingImageOnlyLeftByEvents ==
  [][(app_state = STATE_RECEIVE_IMAGE /\ nEvents' = nEvents) =>
       /\ app_state' = STATE_RECEIVE_IMAGE
       /\ rx = ImgReq
       /\ rx' = ImgReq
       /\ lastArms' = <<>>
       /\ tx' = tx
       /\ UNCHANGED <<rx_complete, rx_error, img_buffer, start_cmd_buffer>>
       /\ pc \in {"chk_complete", "chk_error"}
       /\ pc' \in {"chk_complete", "chk_error"}]_vars

(* the main loop has polled both flags while the image receive is          *)
(* outstanding and every event has been used up                            *)
C18_Witness ==
  /\ app_state = STATE_RECEIVE_IMAGE
  /\ rx = ImgReq
  /\ nEvents = MaxEvents
  /\ pc = "chk_error"
  /\ lastArms = <<>>

(* C19: the response to a completed image is a function of that image      *)
(* alone (for the deterministic engine EngineOutput): when AI_Run          *)
(* succeeds the digit sent is the class of the scores the engine gives for *)
(* img_buffer[i] - 128, whatever earlier transactions, invalid tokens or   *)
(* errors left in input_buffer and output_buffer; when it fails the        *)
(* message is the fixed failure text.                                      *)
ExpectedResponse(img) ==
  DigitLines[LowestMaxIndex(EngineOutput([i \in Pixels |-> img[i] - 128])) + 1]

C19_ResponseDependsOnImageOnly ==
  pc = "result_tx" =>
    tx[Len(tx)].msg = (IF ret = 0 THEN ExpectedResponse(img_buffer)
                       ELSE MSG_INFERENCE_FAILED)

(* the same image answered twice with the same digit, a receive error in   *)
(* between                                                                 *)
C19_Witness ==
  /\ pc = "result_tx"
  /\ imgDone = 2
  /\ errDone = 1
  /\ img_buffer = ShiftImage(0)
  /\ NumSent("9\r\n") = 2

(* C20: every transmission (banner, init-failure report, class result,     *)
(* inference-failure message, UART-error message) is issued with a finite  *)
(* timeout, never with the wait-forever value.                             *)
C20_AllTransmitsBounded ==
  \A i \in 1 .. Len(tx) :
    /\ tx[i].timeout # HAL_MAX_DELAY
    /\ tx[i].timeout \in 1 .. 1000


(* C21: a transmit that returns a failure status is neither retried nor     *)
(* escalated: the main context appends no further message, continues at    *)
(* the statement after the call and leaves state and flags alone; no       *)
(* response or UART-error message is handed over more often than its       *)
(* cause occurred; and after a failed transmit of a response or of the     *)
(* UART-error message the program is again in STATE_WAIT_START with the    *)
(* 5-byte command receive armed.                                           *)
TransmitPcs == {"fail_tx", "banner_tx", "result_tx"}

C21_FailedTransmitNotRetried ==
  /\ [][(pc \in TransmitPcs /\ pc' # pc /\ txStatus' # "HAL_OK") =>
          /\ tx' = tx
          /\ pc' = (IF pc = "result_tx" THEN "wait_after_inference"
                    ELSE IF pc = "banner_tx" THEN "boot_wait" ELSE "halt")
          /\ app_state' = app_state
          /\ rx_complete' = rx_complete
          /\ rx_error' = rx_error]_vars
  /\ [](NumResponses <= imgDone /\ NumSent(MSG_UART_ERROR) <= errDone)
  /\ (pc = "wait_after_inference" /\ txStatus # "HAL_OK")
       ~> (RearmedAfterInference /\ txStatus # "HAL_OK")
  /\ (rx_error = 1 /\ txStatus # "HAL_OK")
       ~> (app_state = STATE_WAIT_START /\ rx = CmdReq)

C21_Witness ==
  /\ RearmedAfterInference
  /\ txStatus = "HAL_TIMEOUT"
  /\ imgDone = 1
  /\ errDone = 0
  /\ NumResponses = 1


(* C22: no step taken between the entry of ProcessInference and its return *)
(* changes img_buffer, so the image after the pipeline equals the image    *)
(* before it on success and on failure; of the buffers only input_buffer   *)
(* and output_buffer are written, and state and flags are left alone.      *)
InProcessInference == pc \in {"quantize", "ai_run", "respond", "result_tx"}

C22_ImageBufferPreserved ==
  [][InProcessInference =>
       /\ img_buffer' = img_buffer
       /\ start_cmd_buffer' = start_cmd_buffer
       /\ app_state' = app_state
       /\ rx_complete' = rx_complete
       /\ rx_error' = rx_error]_vars

C22_Witness ==
  /\ pc = "wait_after_inference"
  /\ ret # 0
  /\ img_buffer = PeakImage(3)
  /\ input_buffer = [i \in Pixels |-> IF i = 3 THEN 127 ELSE -128]
  /\ NumSent(MSG_INFERENCE_FAILED) = 1


(* C23: AI_Run returns 0 exactly when the network handle and both buffer   *)
(* descriptors are non-null and ai_network_run reported a batch count of   *)
(* 1; with a null handle or descriptor it returns -1 and ai_network_run    *)
(* was not invoked; a batch count of 0, 2 or -1 gives -1.                  *)
HandlesSet == network /\ ai_input /\ ai_output

C23_AIRunSucceedsOnlyOnOneBatch ==
  pc = "respond" =>
    /\ ret \in {0, -1}
    /\ (ret = 0) <=> (HandlesSet /\ last_batch = 1)
    /\ ~HandlesSet => (ret = -1 /\ engineRuns = 0)
    /\ HandlesSet => engineRuns = 1

C23_Witness ==
  /\ pc = "respond"
  /\ HandlesSet
  /\ last_batch = 2
  /\ engineRuns = 1
  /\ ret = -1


(* C24: rx_complete goes from 0 to 1 only in a receive-complete step taken *)
(* in STATE_RECEIVE_IMAGE for the 784-byte image receive; a                *)
(* receive-complete step taken in STATE_WAIT_START leaves it as it is; it  *)
(* goes from 1 to 0 only in the step of the main loop at line 310, which   *)
(* is followed at once by ProcessInference.                                *)
C24_CompleteFlagDiscipline ==
  [][/\ (rx_complete = 0 /\ rx_complete' = 1) =>
          /\ IsRxCpltStep
          /\ app_state = STATE_RECEIVE_IMAGE
          /\ rx = ImgReq
          /\ imgDone' = imgDone + 1
     /\ (IsRxCpltStep /\ app_state = STATE_WAIT_START) =>
          rx_complete' = rx_complete
     /\ (rx_complete = 1 /\ rx_complete' = 0) =>
          /\ pc = "clr_complete"
          /\ pc' = "quantize"
          /\ nEvents' = nEvents]_vars

C24_Witness ==
  /\ pc = "quantize"
  /\ rx_complete = 0
  /\ imgDone = 2
  /\ nEvents = 5
  /\ errDone = 0


(* C25: the outstanding receive matches the state: a receive outstanding   *)
(* into img_buffer implies STATE_RECEIVE_IMAGE, and a 5-byte receive       *)
(* outstanding into start_cmd_buffer implies STATE_WAIT_START.             *)
C25_ArmedReceiveMatchesState ==
  /\ rx = ImgReq => app_state = STATE_RECEIVE_IMAGE
  /\ rx = CmdReq => app_state = STATE_WAIT_START

C25_Witness ==
  /\ rx = ImgReq
  /\ app_state = STATE_RECEIVE_IMAGE
  /\ errDone = 1
  /\ imgDone = 1
  /\ pc = "chk_error"


(* C26: every step that enters STATE_RECEIVE_IMAGE or arms a receive into  *)
(* img_buffer is a receive-complete step that completes a 5-byte command   *)
(* receive whose bytes, stored in that step, are START; it arms exactly    *)
(* one image receive.  So image receives never outnumber the command       *)
(* receives completed with START, and the bytes an earlier transaction     *)
(* left in start_cmd_buffer are never compared again.                      *)
ArmsImage(arms) == \E i \in 1 .. Len(arms) : arms[i] = ImgReq

C26_ImageArmedOnlyByFreshStart ==
  [][(\/ (app_state # STATE_RECEIVE_IMAGE /\ app_state' = STATE_RECEIVE_IMAGE)
      \/ ArmsImage(lastArms')
      \/ (rx # ImgReq /\ rx' = ImgReq)) =>
       /\ IsRxCpltStep
       /\ rx = CmdReq
       /\ app_state = STATE_WAIT_START
       /\ start_cmd_buffer' = START_TOKEN
       /\ lastArms' = <<ImgReq>>
       /\ rx' = ImgReq
       /\ app_state' = STATE_RECEIVE_IMAGE
       /\ imgDone' = imgDone]_vars

C26_Witness ==
  /\ app_state = STATE_RECEIVE_IMAGE
  /\ rx = ImgReq
  /\ lastArms = <<ImgReq>>
  /\ start_cmd_buffer = START_TOKEN
  /\ errDone = 1
  /\ imgDone = 0
  /\ nEvents = 3


(* C27: once the boot sequence has armed the first receive, in every state *)
(* a receive is outstanding, or rx_complete or rx_error is pending, or the *)
(* main loop is inside the branch that handles a completed image or the    *)
(* branch that handles an error; each branch ends by arming a receive.     *)
CompleteBranchPcs ==
  {"clr_complete", "quantize", "ai_run", "respond", "result_tx",
   "wait_after_inference", "arm_after_inference"}

ErrorBranchPcs == {"clr_error", "wait_after_error", "arm_after_error"}

BootPcs ==
  {"ai_init", "fail_tx", "halt", "banner", "banner_tx", "boot_wait", "boot_arm"}

C27_NeverStuckAfterBoot ==
  pc \notin BootPcs =>
    \/ rx # NoRx
    \/ rx_complete = 1
    \/ rx_error = 1
    \/ pc \in CompleteBranchPcs \cup ErrorBranchPcs

C27_Witness ==
  /\ pc = "chk_error"
  /\ rx = NoRx
  /\ rx_complete = 1
  /\ rx_error = 0
  /\ imgDone = 2


(* C28: while a HAL_UART_Transmit call of the main context has not yet     *)
(* returned, no other transmission starts: no step hands a message to the  *)
(* platform, and in particular no receive-error callback runs and sends    *)
(* the UART-error message.                                                 *)
MainIsTransmitting == tx # <<>> /\ tx[Len(tx)].ctx = "main"

C28_NoTransmitDuringTransmit ==
  [][(pc \in TransmitPcs) =>
       /\ tx' = tx
       /\ errDone' = errDone
       /\ nEvents' = nEvents
       /\ MainIsTransmitting]_vars

C28_Witness ==
  /\ pc = "result_tx"
  /\ NumSent(MSG_UART_ERROR) = 1
  /\ tx[Len(tx)].ctx = "main"
  /\ tx[Len(tx) - 1].ctx = "isr"
  /\ imgDone = 1


(* the step is an invocation of a callback *)
IsCallbackStep == nEvents' = nEvents + 1

(* the step changes nothing of the program and starts no receive and no    *)
(* transmission                                                            *)
CallbackIsNoOp ==
  /\ lastArms' = <<>>
  /\ UNCHANGED <<pc, app_state, rx_complete, rx_error, start_cmd_buffer,
                 img_buffer, input_buffer, output_buffer, network, ai_input,
                 ai_output, ret, rx, tx, overlap, txStatus>>

(* C29: HAL_UART_RxCpltCallback invoked for USART2 while app_state is      *)
(* STATE_IDLE or STATE_PROCESS_IMAGE changes neither state nor flags nor   *)
(* buffers, arms no receive and transmits nothing.                         *)
C29_CompletionIgnoredOutsideReception ==
  [][(/\ IsCallbackStep
      /\ lastCall' = [cb |-> "RxCplt", inst |-> "USART2"]
      /\ app_state \in {STATE_IDLE, STATE_PROCESS_IMAGE}) =>
       CallbackIsNoOp]_vars

C29_Witness ==
  /\ lastCall = [cb |-> "RxCplt", inst |-> "USART2"]
  /\ nEvents = 1
  /\ app_state = STATE_PROCESS_IMAGE
  /\ rx_complete = 0
  /\ rx = NoRx
  /\ tx = <<>>

(* C30: a callback invoked for a UART other than USART2, whether           *)
(* receive-complete or receive-error, changes neither state nor flags nor  *)
(* buffers, arms no receive and transmits nothing.                         *)
C30_OtherInstanceIgnored ==
  [][(IsCallbackStep /\ lastCall'.inst # "USART2") => CallbackIsNoOp]_vars

C30_Witness ==
  /\ lastCall = [cb |-> "Error", inst |-> "USART1"]
  /\ nEvents = 1
  /\ app_state = STATE_RECEIVE_IMAGE
  /\ rx_error = 0
  /\ tx = <<>>

=============================================================================
